---- MODULE Spec2Model ----
(***************************************************************************)
(* Store monitoring: interval algebra, business windows, status segments   *)
(* and the uptime/downtime accumulator (app/utils/windows.py,              *)
(* app/utils/segments.py, app/services/compute.py), and the report jobs    *)
(* that trigger_report starts and get_report polls (app/api/report.py).    *)
(*                                                                         *)
(* Time.  A datetime is an integer count of ticks since the model origin,  *)
(* which is midnight UTC of a Saturday.  One tick stands for the           *)
(* resolution of a datetime; an hour has TicksPerHour ticks and a day      *)
(* DayLen ticks.  A wall-clock time (datetime.time) is a tick of the day,  *)
(* 0..DayLen-1, so time(23,59,59,999_999), the last representable time of  *)
(* a day, is DayLen-1.  A local datetime is its wall clock counted in      *)
(* ticks the same way, with the zone it belongs to kept beside it.         *)
(***************************************************************************)
EXTENDS Integers, Sequences, FiniteSets, TLC

VARIABLES
    store_status,   \* table store_status: set of [store_id, timestamp_utc, status]
    call,           \* the call in hand: [fn |-> name, ...arguments]
    pc,             \* "called" while the call runs, "returned" once it has returned
    ret,            \* what the call returned (None until then)
    business_hours, \* table business_hours: set of [store_id, day_of_week,
                    \*   start_time_local, end_time_local]
    store_timezone, \* table store_timezone: set of [store_id, timezone_str]
    report_jobs,    \* table report_jobs: report_id -> [status, csv_path]
    tasks,          \* background tasks: report_id -> the position and locals of _run_job
    files,          \* the files under REPORT_DIR: set of [path, rows]
    response        \* the last answer of get_report (None before the first)

vars == <<store_status, call, pc, ret, business_hours, store_timezone,
          report_jobs, tasks, files, response>>
\* the state of the report service
service == <<business_hours, store_timezone, report_jobs, tasks, files, response>>

(***************************************************************************)
(* Bounds of the model.                                                    *)
(***************************************************************************)
\* instants of the interval-algebra calls (clip, merge_overlaps): 0..MaxT
MaxT == 4
\* timestamps of pings and bounds of the ranges asked of them: 0..MaxTs
MaxTs == 3
\* rows of store_status
MaxPings == 3
\* length of the list handed to merge_overlaps
MaxIv == 3

Times == 0..MaxT

Max(a, b) == IF a >= b THEN a ELSE b
Min(a, b) == IF a <= b THEN a ELSE b

\* Python's None
None == [none |-> TRUE]

(***************************************************************************)
(* Interval algebra (windows.py)                                           *)
(***************************************************************************)
Interval(s, e) == [start |-> s, end |-> e]

\* the instants of the half-open range [s, e), and of an interval
Covered(s, e) == s..(e - 1)
Instants(iv) == Covered(iv.start, iv.end)

clip_keeps_touching(a, b) ==
    LET s == Max(a.start, b.start)
        e == Min(a.end, b.end)
    IN  IF s > e THEN None ELSE Interval(s, e)

clip(a, b) ==
    LET s == Max(a.start, b.start)
        e == Min(a.end, b.end)
    IN  IF s >= e THEN None ELSE Interval(s, e)

\* sorted(intervals, key=lambda i: i.start): stable, ascending by start
RECURSIVE InsertByStart(_, _)
InsertByStart(xs, iv) ==
    IF xs = <<>> THEN <<iv>>
    ELSE IF xs[Len(xs)].start <= iv.start THEN Append(xs, iv)
    ELSE Append(InsertByStart(SubSeq(xs, 1, Len(xs) - 1), iv), xs[Len(xs)])

RECURSIVE SortedByStart(_)
SortedByStart(xs) ==
    IF xs = <<>> THEN <<>>
    ELSE InsertByStart(SortedByStart(SubSeq(xs, 1, Len(xs) - 1)), xs[Len(xs)])

\* one iteration of the loop of merge_overlaps
MergeStep(out, iv) ==
    IF out = <<>> \/ iv.start > out[Len(out)].end
    THEN Append(out, iv)
    ELSE [out EXCEPT ![Len(out)] =
              Interval(out[Len(out)].start, Max(out[Len(out)].end, iv.end))]

RECURSIVE MergeLoop(_, _)
MergeLoop(out, xs) ==
    IF xs = <<>> THEN out ELSE MergeLoop(MergeStep(out, Head(xs)), Tail(xs))

merge_overlaps_unsorted(intervals) == MergeLoop(<<>>, intervals)

merge_overlaps(intervals) == MergeLoop(<<>>, SortedByStart(intervals))

(***************************************************************************)
(* Time zones (zoneinfo.ZoneInfo as windows.py uses it)                    *)
(***************************************************************************)
\* ticks of datetime resolution in an hour
TicksPerHour == 2
HoursPerDay == 24
DayLen == HoursPerDay * TicksPerHour
\* weekday() of the model origin: 5 = Saturday
OriginWeekday == 5
\* time(23, 59, 59, 999_999)
EndOfDay == DayLen - 1
\* time(h, 0)
Hour(h) == h * TicksPerHour

\* tzname of a store with no usable timezone: None or ""
NoTz == ""
DEFAULT_TZ == "America/Chicago"

\* the rules of a zone over the days of the model: UTC offset `before` until
\* the UTC instant `at` and `after` from then on.  Europe/London springs
\* forward and America/Asuncion falls back on the Sunday of the model; the
\* other zones keep one offset.
ZoneInfo(tzname) ==
    CASE tzname = "UTC" -> [before |-> 0, after |-> 0, at |-> 0]
      [] tzname = "America/Chicago" -> [before |-> -Hour(5), after |-> -Hour(5), at |-> 0]
      [] tzname = "Asia/Kolkata" -> [before |-> Hour(5) + 1, after |-> Hour(5) + 1, at |-> 0]
      [] tzname = "Europe/London" -> [before |-> 0, after |-> Hour(1), at |-> DayLen + Hour(1)]
      [] tzname = "America/Asuncion" -> [before |-> -Hour(3), after |-> -Hour(4), at |-> DayLen + Hour(3)]

TzNames == {"UTC", "America/Chicago", "Asia/Kolkata", "Europe/London", "America/Asuncion"}

\* dt.astimezone(tz) of a UTC datetime: the local wall clock
astimezone(u, tz) == u + (IF u < tz.at THEN tz.before ELSE tz.after)

\* datetime(...).replace(tzinfo=tz).astimezone(UTC) of a local wall clock w
\* with fold=0: a wall clock that occurs twice is the first occurrence, one
\* that is skipped takes the offset in force before the transition
to_utc(w, tz) ==
    IF w < tz.at + Max(tz.before, tz.after) THEN w - tz.before ELSE w - tz.after

\* the date of a local wall clock, as a count of days, and its weekday()
date(w) == w \div DayLen
weekday(day) == (day + OriginWeekday) % 7
\* datetime.combine(day, t)
combine(day, t) == day * DayLen + t

(***************************************************************************)
(* Business windows (windows.py)                                           *)
(***************************************************************************)
\* day is the date of day_local
local_window_to_utc(day, st, et, tz) ==
    LET start_local == combine(day, st)
        end_same == combine(day, et)
    IN  IF st <= et
        THEN <<Interval(to_utc(start_local, tz), to_utc(end_same, tz))>>
        ELSE LET end_of_day_local == combine(day, EndOfDay)
                 start_next_local == combine(day + 1, 0)
                 end_same_next == combine(day + 1, et)
             IN  <<Interval(to_utc(start_local, tz), to_utc(end_of_day_local, tz)),
                   Interval(to_utc(start_next_local, tz), to_utc(end_same_next, tz))>>

\* hours_for_store.get(dow, []): the (st, et) pairs of one weekday, in order
HoursGet_any_day(hours_for_store, dow) == hours_for_store

HoursGet(hours_for_store, dow) == SelectSeq(hours_for_store, LAMBDA h : h.dow = dow)

\* the inner loop: clip each interval to the window and keep what is left
RECURSIVE ClipEach(_, _, _)
ClipEach(ivs, win, out) ==
    IF ivs = <<>> THEN out
    ELSE LET clipped == clip(Head(ivs), win)
         IN  ClipEach(Tail(ivs), win, IF clipped # None THEN Append(out, clipped) ELSE out)

\* for st, et in hours_for_store.get(dow, []): ...
RECURSIVE DayLoop(_, _, _, _, _)
DayLoop(entries, day, tz, win, out) ==
    IF entries = <<>> THEN out
    ELSE DayLoop(Tail(entries), day, tz, win,
                 ClipEach(local_window_to_utc(day, Head(entries).st, Head(entries).et, tz),
                          win, out))

\* while day <= end_local: ...; day += timedelta(days=1)
RECURSIVE WalkDays(_, _, _, _, _, _)
WalkDays(day, end_local, tz, hours_for_store, win, out) ==
    IF combine(day, 0) <= end_local
    THEN WalkDays(day + 1, end_local, tz, hours_for_store, win,
                  DayLoop(HoursGet(hours_for_store, weekday(day)), day, tz, win, out))
    ELSE out

\* the list `out` of business_windows_utc before it is merged
WalkedWindows(tzname, hours_for_store, win_start_utc, win_end_utc) ==
    LET tz == ZoneInfo(IF tzname = NoTz THEN DEFAULT_TZ ELSE tzname)
        cur_local == astimezone(win_start_utc, tz)
        end_local == astimezone(win_end_utc, tz)
    IN  WalkDays(date(cur_local), end_local, tz, hours_for_store,
                 Interval(win_start_utc, win_end_utc), <<>>)

business_windows_utc_always_walks(tzname, hours_for_store, win_start_utc, win_end_utc) ==
    IF win_start_utc >= win_end_utc THEN <<>>
    ELSE merge_overlaps(WalkedWindows(tzname, hours_for_store, win_start_utc, win_end_utc))

business_windows_utc_unmerged(tzname, hours_for_store, win_start_utc, win_end_utc) ==
    IF win_start_utc >= win_end_utc THEN <<>>
    ELSE IF hours_for_store = <<>> THEN <<Interval(win_start_utc, win_end_utc)>>
    ELSE WalkedWindows(tzname, hours_for_store, win_start_utc, win_end_utc)

business_windows_utc(tzname, hours_for_store, win_start_utc, win_end_utc) ==
    IF win_start_utc >= win_end_utc THEN <<>>
    ELSE IF hours_for_store = <<>> THEN <<Interval(win_start_utc, win_end_utc)>>
    ELSE merge_overlaps(WalkedWindows(tzname, hours_for_store, win_start_utc, win_end_utc))

(***************************************************************************)
(* Status segments (segments.py)                                           *)
(***************************************************************************)
Stores == {"s1", "s2"}
Status == {"active", "inactive"}

Seg(s, e, st) == [start |-> s, end |-> e, status |-> st]

\* the rows of a set of pings in one of the orders ORDER BY timestamp_utc ASC
\* may return them: rows of equal timestamp come in any order
RowOrders(S) ==
    {rows \in [1..Cardinality(S) -> S] :
        /\ \A i, j \in 1..Cardinality(S) : i # j => rows[i] # rows[j]
        /\ \A i \in 1..(Cardinality(S) - 1) :
               rows[i].timestamp_utc <= rows[i + 1].timestamp_utc}

\* SELECT ... WHERE store_id = :store_id AND timestamp_utc >= :start
\*   AND timestamp_utc < :end ORDER BY timestamp_utc ASC
SelectRows(tbl, store_id, start, end) ==
    RowOrders({p \in tbl : /\ p.store_id = store_id
                           /\ p.timestamp_utc >= start
                           /\ p.timestamp_utc < end})

SelectPrev_earliest(tbl, store_id, start) ==
    LET before == {p \in tbl : p.store_id = store_id /\ p.timestamp_utc < start}
    IN  IF before = {} THEN {None}
        ELSE {p \in before : \A q \in before : p.timestamp_utc <= q.timestamp_utc}

\* SELECT ... WHERE store_id = :store_id AND timestamp_utc < :start
\*   ORDER BY timestamp_utc DESC LIMIT 1: the rows .first() may return
SelectPrev(tbl, store_id, start) ==
    LET before == {p \in tbl : p.store_id = store_id /\ p.timestamp_utc < start}
    IN  IF before = {} THEN {None}
        ELSE {p \in before : \A q \in before : q.timestamp_utc <= p.timestamp_utc}

CloseSeg_always(segs, cursor, ts, curr) == Append(segs, Seg(cursor, ts, curr))

\* if ts > cursor: segs.append(Seg(cursor, ts, curr))
CloseSeg(segs, cursor, ts, curr) ==
    IF ts > cursor THEN Append(segs, Seg(cursor, ts, curr)) ELSE segs

\* the loop over rows and the closing segment
RECURSIVE SegLoop(_, _, _, _, _)
SegLoop(rows, cursor, curr, segs, end) ==
    IF rows = <<>>
    THEN IF cursor < end THEN Append(segs, Seg(cursor, end, curr)) ELSE segs
    ELSE LET ts == Head(rows).timestamp_utc
             st_val == Head(rows).status
         IN  SegLoop(Tail(rows), ts, st_val, CloseSeg(segs, cursor, ts, curr), end)

status_segments_unseeded(rows, prev, start, end) ==
    IF start >= end THEN <<>>
    ELSE IF rows # <<>>
         THEN SegLoop(Tail(rows), rows[1].timestamp_utc, rows[1].status, <<>>, end)
    ELSE IF prev # None THEN <<Seg(start, end, prev.status)>>
    ELSE <<Seg(start, end, "inactive")>>

\* status_segments once its two queries have answered rows and prev
status_segments(rows, prev, start, end) ==
    IF start >= end THEN <<>>
    ELSE IF prev # None THEN SegLoop(rows, start, prev.status, <<>>, end)
    ELSE IF rows # <<>> THEN SegLoop(rows, start, rows[1].status, <<>>, end)
    ELSE <<Seg(start, end, "inactive")>>

(***************************************************************************)
(* Uptime/downtime accumulator (compute.py)                                *)
(***************************************************************************)
\* (end - start).total_seconds() / 60.0 of one tick
MinutesPerTick == 60 \div TicksPerHour

OverlapMinutes_from_window_start(bw, s) ==
    LET start == bw.start
        end == Min(bw.end, s.end)
    IN  IF start >= end THEN 0 ELSE (end - start) * MinutesPerTick

\* the body of the inner loop: the minutes bw and s share, 0 when it continues
OverlapMinutes(bw, s) ==
    LET start == Max(bw.start, s.start)
        end == Min(bw.end, s.end)
    IN  IF start >= end THEN 0 ELSE (end - start) * MinutesPerTick

\* for s in segs: ... ; acc is <<active, inactive>>
RECURSIVE AccumulateSegs(_, _, _)
AccumulateSegs(bw, segs, acc) ==
    IF segs = <<>> THEN acc
    ELSE LET s == Head(segs)
             mins == OverlapMinutes(bw, s)
         IN  AccumulateSegs(bw, Tail(segs),
                            IF s.status = "active"
                            THEN <<acc[1] + mins, acc[2]>>
                            ELSE <<acc[1], acc[2] + mins>>)

\* for bw in biz: ...
RECURSIVE AccumulateWindows(_, _, _)
AccumulateWindows(biz, segs, acc) ==
    IF biz = <<>> THEN acc
    ELSE AccumulateWindows(Tail(biz), segs, AccumulateSegs(Head(biz), segs, acc))

_accumulate(segs, biz) == AccumulateWindows(biz, segs, <<0, 0>>)

(***************************************************************************)
(* Inputs                                                                  *)
(***************************************************************************)
\* every Interval value over Times, degenerate ones (start >= end) included
AnyIntervals == {Interval(s, e) : s \in Times, e \in Times}
\* the intervals proper, start <= end: empty ones included
Intervals == {iv \in AnyIntervals : iv.start <= iv.end}

Pings == [store_id : Stores, timestamp_utc : 0..MaxTs, status : Status]

\* the sets of at most n elements of S
RECURSIVE SubsetsUpTo(_, _)
SubsetsUpTo(S, n) ==
    IF n = 0 THEN {{}}
    ELSE LET smaller == SubsetsUpTo(S, n - 1)
         IN  smaller \cup {T \cup {x} : T \in smaller, x \in S}

\* a row of business_hours as _hours_map keeps it: weekday and (st, et)
HoursRow(dow, st, et) == [dow |-> dow, st |-> st, et |-> et]

\* days of the model in which the ranges asked of business_windows_utc start
HorizonDays == 3

WinStarts == 0..(HorizonDays * DayLen)
\* Saturday, Sunday, Monday
WinDays == {5, 6, 0}
ZoneArgs == {NoTz, "UTC", "Asia/Kolkata", "Europe/London", "America/Asuncion"}

\* rows that overlap, touch or follow an overnight row when paired
PairEntries ==
    {HoursRow(6, Hour(9), Hour(12)), HoursRow(6, Hour(12), Hour(15)),
     HoursRow(6, Hour(10), Hour(14)), HoursRow(6, Hour(23), Hour(2)),
     HoursRow(0, 0, Hour(9))}
WinTimes == {0, Hour(2), Hour(23), EndOfDay}
WinSchedules ==
    {<<>>} \cup {<<HoursRow(6, st, et)>> : st \in WinTimes, et \in WinTimes}
           \cup {<<g, h>> : g \in PairEntries, h \in PairEntries}
WinRanges == {Interval(s, s + n) : s \in WinStarts, n \in {-1, 0, 1, 7, DayLen + Hour(6)}}

\* overnight rows: st > et
NightTimes == {<<Hour(23), Hour(2)>>, <<Hour(23), Hour(12)>>, <<Hour(12), Hour(2)>>}
NightSchedules == {<<HoursRow(d, t[1], t[2])>> : d \in WinDays, t \in NightTimes}
NightRanges ==
    {Interval(s, s + n) : s \in WinStarts, n \in {1, Hour(1), 7, DayLen, DayLen + Hour(6), 2 * DayLen}}

\* same-day rows: st <= et
DayTimes == {t \in {0, Hour(9), Hour(12), EndOfDay} \X {0, Hour(9), Hour(12), EndOfDay} : t[1] <= t[2]}
DaySchedules ==
    {<<HoursRow(d, t[1], t[2])>> : d \in WinDays, t \in DayTimes}
        \cup {<<g, h>> : g \in {e \in PairEntries : e.st <= e.et}, h \in {e \in PairEntries : e.st <= e.et}}
DayRanges ==
    {Interval(s, s + n) : s \in WinStarts, n \in {1, 7, DayLen, DayLen + Hour(6), 2 * DayLen}}

\* windows before they are clipped to the range of the pings
AccWindows == {iv \in {Interval(s, e) : s \in 0..MaxTs, e \in 1..(MaxTs + 1)} : iv.start < iv.end}

RECURSIVE SeqsUpTo(_, _)
SeqsUpTo(S, n) ==
    IF n = 0 THEN {<<>>}
    ELSE LET shorter == SeqsUpTo(S, n - 1)
         IN  shorter \cup {Append(xs, x) : xs \in {ys \in shorter : Len(ys) = n - 1}, x \in S}

(***************************************************************************)
(* State machine: a call is drawn with its arguments, then returns.        *)
(***************************************************************************)
\* no table but store_status is filled and no report has been asked for
NoService ==
    /\ business_hours = {}
    /\ store_timezone = {}
    /\ report_jobs = <<>>
    /\ tasks = <<>>
    /\ files = {}
    /\ response = None

Called(fn) == pc = "called" /\ call.fn = fn
Returned(fn) == pc = "returned" /\ call.fn = fn

clip_returns ==
    /\ Called("clip")
    /\ ret' = clip(call.a, call.b)
    /\ pc' = "returned"
    /\ UNCHANGED <<store_status, call, service>>

merge_overlaps_returns ==
    /\ Called("merge_overlaps")
    /\ ret' = merge_overlaps(call.intervals)
    /\ pc' = "returned"
    /\ UNCHANGED <<store_status, call, service>>

status_segments_returns ==
    /\ Called("status_segments")
    /\ \E rows \in SelectRows(store_status, call.store_id, call.start, call.end),
          prev \in SelectPrev(store_status, call.store_id, call.start) :
          ret' = status_segments(rows, prev, call.start, call.end)
    /\ pc' = "returned"
    /\ UNCHANGED <<store_status, call, service>>

business_windows_utc_returns ==
    /\ Called("business_windows_utc")
    /\ ret' = business_windows_utc(call.tzname, call.hours_for_store,
                                    call.win_start_utc, call.win_end_utc)
    /\ pc' = "returned"
    /\ UNCHANGED <<store_status, call, service>>

local_window_to_utc_returns ==
    /\ Called("local_window_to_utc")
    /\ ret' = local_window_to_utc(call.day, call.st, call.et, ZoneInfo(call.tzname))
    /\ pc' = "returned"
    /\ UNCHANGED <<store_status, call, service>>

accumulate_returns ==
    /\ Called("_accumulate")
    /\ ret' = _accumulate(call.segs, call.biz)
    /\ pc' = "returned"
    /\ UNCHANGED <<store_status, call, service>>

InitClip ==
    /\ store_status = {}
    /\ call \in {[fn |-> "clip", a |-> a, b |-> b] : a \in AnyIntervals, b \in AnyIntervals}
    /\ pc = "called"
    /\ ret = None
    /\ NoService

SpecClip == InitClip /\ [][clip_returns]_vars

InitMerge ==
    /\ store_status = {}
    /\ call \in {[fn |-> "merge_overlaps", intervals |-> xs] : xs \in SeqsUpTo(Intervals, MaxIv)}
    /\ pc = "called"
    /\ ret = None
    /\ NoService

SpecMerge == InitMerge /\ [][merge_overlaps_returns]_vars

InitSeg ==
    /\ store_status \in SubsetsUpTo(Pings, MaxPings)
    /\ call \in {[fn |-> "status_segments", store_id |-> sid, start |-> s, end |-> e] :
                   sid \in Stores, s \in 0..MaxTs, e \in 0..MaxTs}
    /\ pc = "called"
    /\ ret = None
    /\ NoService

SpecSeg == InitSeg /\ [][status_segments_returns]_vars

WindowCalls(schedules, ranges) ==
    {[fn |-> "business_windows_utc", tzname |-> tzname, hours_for_store |-> hours,
      win_start_utc |-> r.start, win_end_utc |-> r.end] :
     tzname \in ZoneArgs, hours \in schedules, r \in ranges}

\* business_windows_utc over schedules of every kind
InitWin ==
    /\ store_status = {}
    /\ call \in WindowCalls(WinSchedules, WinRanges)
    /\ pc = "called"
    /\ ret = None
    /\ NoService

SpecWin == InitWin /\ [][business_windows_utc_returns]_vars

\* overnight rows: local_window_to_utc alone and inside business_windows_utc
InitNight ==
    /\ store_status = {}
    /\ \/ call \in WindowCalls(NightSchedules, NightRanges)
       \/ call \in {[fn |-> "local_window_to_utc", day |-> day, st |-> t[1], et |-> t[2],
                       tzname |-> tzname] :
                      day \in 0..HorizonDays, t \in NightTimes, tzname \in TzNames}
    /\ pc = "called"
    /\ ret = None
    /\ NoService

NextNight == business_windows_utc_returns \/ local_window_to_utc_returns

SpecNight == InitNight /\ [][NextNight]_vars

\* schedules of same-day rows only
InitDay ==
    /\ store_status = {}
    /\ call \in WindowCalls(DaySchedules, DayRanges)
    /\ pc = "called"
    /\ ret = None
    /\ NoService

SpecDay == InitDay /\ [][business_windows_utc_returns]_vars

\* _accumulate as compute_and_write_csv calls it for one store and one range:
\* segs is what status_segments answers for the store, biz a list such as
\* business_windows_utc returns, clipped to the range and merged
InitAcc ==
    /\ store_status \in SubsetsUpTo({p \in Pings : p.store_id = "s1"}, MaxPings)
    /\ \E start \in 0..MaxTs, end \in 0..MaxTs :
          \E rows \in SelectRows(store_status, "s1", start, end),
             prev \in SelectPrev(store_status, "s1", start),
             windows \in SeqsUpTo(AccWindows, 2) :
             call = [fn |-> "_accumulate", store_id |-> "s1", start |-> start, end |-> end,
                     segs |-> status_segments(rows, prev, start, end),
                     biz |-> merge_overlaps(ClipEach(windows, Interval(start, end), <<>>))]
    /\ pc = "called"
    /\ ret = None
    /\ NoService

SpecAcc == InitAcc /\ [][accumulate_returns]_vars

(***************************************************************************)
(* Report rows (compute.py)                                                *)
(***************************************************************************)
\* the store ids of the model in the ascending order of str
StoreIds == <<"s1", "s2", "s3">>

\* sorted(S) of a set of store ids
sorted(S) == SelectSeq(StoreIds, LAMBDA s : s \in S)

\* an exception caught by _run_job
Raised(name) == [raised |-> name]

\* _max_now: the greatest timestamp_utc as a UTC datetime; raises
\* RuntimeError when store_status has no row
_max_now(tbl) ==
    IF tbl = {} THEN Raised("RuntimeError")
    ELSE [utc |-> (CHOOSE t \in {p.timestamp_utc : p \in tbl} :
                      \A p \in tbl : p.timestamp_utc <= t)]

_store_ids_timezones_only(status_tbl, tz_tbl) ==
    sorted({r.store_id : r \in tz_tbl})

\* _store_ids: sorted(set(rows) | set(tz_only))
_store_ids(status_tbl, tz_tbl) ==
    sorted({p.store_id : p \in status_tbl} \cup {r.store_id : r \in tz_tbl})

\* _tz_for: session.get(StoreTimezone, store_id), store_id the primary key
_tz_for(tz_tbl, store_id) ==
    LET tz == {r \in tz_tbl : r.store_id = store_id}
    IN  IF tz = {} THEN DEFAULT_TZ ELSE (CHOOSE r \in tz : TRUE).timezone_str

\* time.fromisoformat of "HH:MM", kept as <<HH, MM>>
fromisoformat(t) == Hour(t[1]) + (t[2] \div MinutesPerTick)

\* the rows of business_hours of one store in any order the query may
\* return them (it has no ORDER BY)
SelectHours(tbl, store_id) ==
    LET S == {r \in tbl : r.store_id = store_id}
    IN  {rows \in [1..Cardinality(S) -> S] :
            \A i, j \in 1..Cardinality(S) : i # j => rows[i] # rows[j]}

\* _hours_map once its query has answered rows: the (st, et) pairs by weekday
_hours_map(rows) ==
    [i \in 1..Len(rows) |->
        HoursRow(rows[i].day_of_week, fromisoformat(rows[i].start_time_local),
                 fromisoformat(rows[i].end_time_local))]

\* timedelta(hours=1), timedelta(days=1), timedelta(days=7)
Lookback == <<Hour(1), DayLen, 7 * DayLen>>

\* last_hour, last_day, last_week
Ranges(now) == [k \in 1..3 |-> Interval(now.utc - Lookback[k], now.utc)]

\* what status_segments may answer for one store and one range
SegmentChoices(tbl, store_id, r) ==
    {status_segments(rows, prev, r.start, r.end) :
        rows \in SelectRows(tbl, store_id, r.start, r.end),
        prev \in SelectPrev(tbl, store_id, r.start)}

\* ZoneInfo(tzname or "America/Chicago") raises for a name it does not know;
\* business_windows_utc builds the zone only for a store that has hours
ZoneRaises(tzname, hours) ==
    hours # <<>> /\ tzname \notin (TzNames \cup {NoTz})

\* (a_m_h, i_m_h), (a_h_d, i_h_d), (a_h_w, i_h_w) of one store: minutes
\* active and inactive in each range, for segs the three lists of segments
Accumulated(tzname, hours, now, segs) ==
    [k \in 1..3 |->
        _accumulate(segs[k],
                    business_windows_utc(tzname, hours, Ranges(now)[k].start,
                                         Ranges(now)[k].end))]

\* every outcome of the loop body for one store
StoreAccs(sid, now, status_tbl, hours_tbl, tz_tbl) ==
    {Accumulated(_tz_for(tz_tbl, sid), _hours_map(hrows), now, <<sh, sd, sw>>) :
        hrows \in SelectHours(hours_tbl, sid),
        sh \in SegmentChoices(status_tbl, sid, Ranges(now)[1]),
        sd \in SegmentChoices(status_tbl, sid, Ranges(now)[2]),
        sw \in SegmentChoices(status_tbl, sid, Ranges(now)[3])}

\* round(num / den, 2), kept in hundredths
Round2(num, den) == (200 * num + den) \div (2 * den)

\* the dict appended to rows
ReportRow(sid, acc) ==
    [store_id |-> sid,
     uptime_last_hour |-> Round2(acc[1][1], 1),
     uptime_last_day |-> Round2(acc[2][1], 60),
     update_last_week |-> Round2(acc[3][1], 60),
     downtime_last_hour |-> Round2(acc[1][2], 1),
     downtime_last_day |-> Round2(acc[2][2], 60),
     downtime_last_week |-> Round2(acc[3][2], 60)]

(***************************************************************************)
(* Report jobs (report.py)                                                 *)
(***************************************************************************)
\* report jobs asked for in one run of the service
MaxJobs == 2

REPORT_DIR == "reports"

\* os.path.join(REPORT_DIR, f"{report_id}.csv")
CsvPath(report_id) == [dir |-> REPORT_DIR, name |-> report_id]

\* ReportJob(report_id=report_id, status="Running", csv_path=None)
ReportJob(report_id) == [report_id |-> report_id, status |-> "Running", csv_path |-> None]

\* _run_job before it starts: no local is bound
Queued == [pc |-> "queued", now |-> None, stores |-> <<>>, rows |-> <<>>, acc |-> <<>>]

\* os.path.exists(path)
Exists(fs, path) == \E f \in fs : f.path = path

CompleteJob(job, csv_path) == [job EXCEPT !.status = "Complete", !.csv_path = csv_path]

FailedJob_marks_complete(job) == [job EXCEPT !.status = "Complete"]

FailedJob_stays_running(job) == job

\* except Exception: job.status = "Failed"
FailedJob(job) == [job EXCEPT !.status = "Failed"]

Answer(code, text, file) == [status_code |-> code, text |-> text, file |-> file]

get_report_any_status(jobs, fs, report_id, status_only) ==
    IF report_id \notin DOMAIN jobs THEN Answer(404, "report_id not found", None)
    ELSE IF Exists(fs, CsvPath(report_id)) THEN Answer(200, "", CsvPath(report_id))
    ELSE Answer(200, jobs[report_id].status, None)

\* get_report: what it answers for report_id
get_report(jobs, fs, report_id, status_only) ==
    IF report_id \notin DOMAIN jobs THEN Answer(404, "report_id not found", None)
    ELSE LET job == jobs[report_id]
         IN  IF job.status = "Running" THEN Answer(200, "Running", None)
             ELSE IF job.status = "Failed" THEN Answer(200, "Failed", None)
             ELSE IF status_only THEN Answer(200, "Complete", None)
             ELSE IF job.csv_path = None \/ ~Exists(fs, job.csv_path)
                  THEN Answer(500, "CSV not found", None)
             ELSE Answer(200, "", job.csv_path)

\* POST /trigger_report: the job is committed, then the task is added
trigger_report ==
    /\ Len(report_jobs) < MaxJobs
    /\ LET report_id == Len(report_jobs) + 1
       IN  /\ report_jobs' = Append(report_jobs, ReportJob(report_id))
           /\ tasks' = Append(tasks, Queued)
    /\ UNCHANGED <<store_status, call, pc, ret, business_hours, store_timezone,
                   files, response>>

\* GET /get_report for an id that was handed out, or for one that never was (0)
get_report_answers ==
    /\ \E report_id \in 0..Len(report_jobs), status_only \in BOOLEAN :
          response' = [report_id |-> report_id,
                       answer |-> get_report(report_jobs, files, report_id, status_only)]
    /\ UNCHANGED <<store_status, call, pc, ret, business_hours, store_timezone,
                   report_jobs, tasks, files>>

TaskAt(j, at) == j \in DOMAIN tasks /\ tasks[j].pc = at

TaskUnchanged ==
    UNCHANGED <<store_status, call, pc, ret, business_hours, store_timezone,
                report_jobs, files, response>>

\* now = await _max_now(session)
task_max_now(j) ==
    /\ TaskAt(j, "queued")
    /\ LET now == _max_now(store_status)
       IN  tasks' = [tasks EXCEPT ![j] =
                        IF now = Raised("RuntimeError")
                        THEN [@ EXCEPT !.pc = "except"]
                        ELSE [@ EXCEPT !.pc = "stores", !.now = now]]
    /\ TaskUnchanged

\* stores = await _store_ids(session)
task_store_ids(j) ==
    /\ TaskAt(j, "stores")
    /\ tasks' = [tasks EXCEPT ![j] =
                    [@ EXCEPT !.pc = "rows",
                              !.stores = _store_ids(store_status, store_timezone)]]
    /\ TaskUnchanged

\* one turn of `for sid in stores`
task_store_row(j) ==
    /\ TaskAt(j, "rows")
    /\ Len(tasks[j].rows) < Len(tasks[j].stores)
    /\ LET sid == tasks[j].stores[Len(tasks[j].rows) + 1]
       IN  \E hrows \in SelectHours(business_hours, sid) :
              IF ZoneRaises(_tz_for(store_timezone, sid), _hours_map(hrows))
              THEN tasks' = [tasks EXCEPT ![j] = [@ EXCEPT !.pc = "except"]]
              ELSE \E acc \in StoreAccs(sid, tasks[j].now, store_status,
                                        business_hours, store_timezone) :
                      tasks' = [tasks EXCEPT ![j] =
                                   [@ EXCEPT !.rows = Append(@, ReportRow(sid, acc)),
                                             !.acc = Append(@, acc)]]
    /\ TaskUnchanged

\* if rows: ... w.writerows(rows); compute_and_write_csv returns
task_write_csv(j) ==
    /\ TaskAt(j, "rows")
    /\ Len(tasks[j].rows) = Len(tasks[j].stores)
    /\ files' = IF tasks[j].rows # <<>>
                THEN files \cup {[path |-> CsvPath(j), rows |-> tasks[j].rows]}
                ELSE files
    /\ tasks' = [tasks EXCEPT ![j] = [@ EXCEPT !.pc = "commit"]]
    /\ UNCHANGED <<store_status, call, pc, ret, business_hours, store_timezone,
                   report_jobs, response>>

\* job.status = "Complete"; job.csv_path = csv_path; commit
task_complete(j) ==
    /\ TaskAt(j, "commit")
    /\ report_jobs' = [report_jobs EXCEPT ![j] = CompleteJob(@, CsvPath(j))]
    /\ tasks' = [tasks EXCEPT ![j] = [@ EXCEPT !.pc = "done"]]
    /\ UNCHANGED <<store_status, call, pc, ret, business_hours, store_timezone,
                   files, response>>

\* except Exception: job.status = "Failed"; commit
task_failed(j) ==
    /\ TaskAt(j, "except")
    /\ report_jobs' = [report_jobs EXCEPT ![j] = FailedJob(@)]
    /\ tasks' = [tasks EXCEPT ![j] = [@ EXCEPT !.pc = "done"]]
    /\ UNCHANGED <<store_status, call, pc, ret, business_hours, store_timezone,
                   files, response>>

\* a step of the background task of job j
TaskStep(j) ==
    \/ task_max_now(j)
    \/ task_store_ids(j)
    \/ task_store_row(j)
    \/ task_write_csv(j)
    \/ task_complete(j)
    \/ task_failed(j)

run_job == \E j \in 1..MaxJobs : TaskStep(j)

\* the instant the reports of the model look back from: Monday 10:00 UTC
ReportNow == combine(2, Hour(10))

Ping(sid, ts, st) == [store_id |-> sid, timestamp_utc |-> ts, status |-> st]
HoursRecord(sid, dow, st, et) ==
    [store_id |-> sid, day_of_week |-> dow, start_time_local |-> st, end_time_local |-> et]
Timezone(sid, tzname) == [store_id |-> sid, timezone_str |-> tzname]

\* no call of a single function is in hand
Serving ==
    /\ call = [fn |-> "report"]
    /\ pc = "serving"
    /\ ret = None

\* the service after start-up: tables ingested, no report asked for
JobStatusTables ==
    {{}, {Ping("s1", ReportNow, "active")},
     {Ping("s1", ReportNow - 1, "inactive"), Ping("s3", ReportNow, "active")}}
JobHoursTables == {{}, {HoursRecord("s2", 0, <<9, 0>>, <<12, 0>>)}}
JobTimezoneTables ==
    {{}, {Timezone("s3", "Asia/Kolkata")}, {Timezone("s2", "Mars/Phobos")}}

InitJobs ==
    /\ store_status \in JobStatusTables
    /\ business_hours \in JobHoursTables
    /\ store_timezone \in JobTimezoneTables
    /\ report_jobs = <<>>
    /\ tasks = <<>>
    /\ files = {}
    /\ response = None
    /\ Serving

NextJobs == trigger_report \/ get_report_answers \/ run_job

SpecJobs == InitJobs /\ [][NextJobs]_vars

\* the event loop runs every background task it was given to its end
SpecJobsFair == SpecJobs /\ \A j \in 1..MaxJobs : WF_vars(TaskStep(j))

\* two reports over tables in which pings of s1 may share a timestamp
RunPings ==
    {Ping("s1", ReportNow - 1, "active"), Ping("s1", ReportNow - 1, "inactive"),
     Ping("s1", ReportNow - Hour(2), "active"), Ping("s2", ReportNow, "active"),
     Ping("s2", ReportNow - DayLen, "inactive")}
RunStatusTables == SubsetsUpTo(RunPings, MaxPings)
RunHoursTables ==
    {{}, {HoursRecord("s1", 0, <<9, 0>>, <<12, 0>>)},
     {HoursRecord("s2", 0, <<0, 0>>, <<9, 30>>)}}
RunTimezoneTables == {{}, {Timezone("s1", "Europe/London")}, {Timezone("s2", "Asia/Kolkata")}}

InitRuns ==
    /\ store_status \in RunStatusTables
    /\ business_hours \in RunHoursTables
    /\ store_timezone \in RunTimezoneTables
    /\ report_jobs = <<>>
    /\ tasks = <<>>
    /\ files = {}
    /\ response = None
    /\ Serving

NextRuns == trigger_report \/ run_job

SpecRuns == InitRuns /\ [][NextRuns]_vars

\* one report, asked for and not yet started, over the data of one store
RowTimes ==
    {ReportNow - 7 * DayLen - Hour(1), ReportNow - DayLen, ReportNow - Hour(1),
     ReportNow - 1, ReportNow}
RowPings == {Ping("s1", ts, st) : ts \in RowTimes, st \in Status}
RowHoursTables ==
    {{}, {HoursRecord("s1", 0, <<9, 0>>, <<12, 0>>)},
     {HoursRecord("s1", 6, <<23, 0>>, <<2, 0>>)},
     {HoursRecord("s1", 0, <<9, 30>>, <<10, 0>>), HoursRecord("s1", 6, <<9, 0>>, <<12, 0>>)},
     {HoursRecord("s1", 0, <<9, 0>>, <<12, 0>>), HoursRecord("s1", 0, <<11, 0>>, <<13, 30>>)},
     {HoursRecord("s1", 6, <<0, 0>>, <<23, 30>>), HoursRecord("s1", 0, <<0, 0>>, <<23, 30>>)}}
RowTimezoneTables ==
    {{}} \cup {{Timezone("s1", tzname)} :
                  tzname \in {"UTC", "Asia/Kolkata", "Europe/London", "America/Asuncion"}}

InitRow ==
    /\ store_status \in SubsetsUpTo(RowPings, MaxPings)
    /\ business_hours \in RowHoursTables
    /\ store_timezone \in RowTimezoneTables
    /\ report_jobs = <<ReportJob(1)>>
    /\ tasks = <<Queued>>
    /\ files = {}
    /\ response = None
    /\ Serving

SpecRow == InitRow /\ [][run_job]_vars

(***************************************************************************)
(* Claims                                                                  *)
(***************************************************************************)
RECURSIVE SumDurations(_)
SumDurations(xs) ==
    IF xs = <<>> THEN 0 ELSE (Head(xs).end - Head(xs).start) + SumDurations(Tail(xs))

UnionInstants(xs) == UNION {Instants(xs[i]) : i \in 1..Len(xs)}

\* C8: clip is symmetric; a present result is [max of starts, min of ends)
\* with start < end and lies inside both arguments; the result is None
\* exactly when the arguments share no instant, in particular when they
\* only touch (a.end = b.start).
C8_ClipOverlap ==
    Returned("clip") =>
        LET a == call.a
            b == call.b
        IN  /\ ret = clip(b, a)
            /\ ret # None =>
                  /\ ret = Interval(Max(a.start, b.start), Min(a.end, b.end))
                  /\ ret.start < ret.end
                  /\ Instants(ret) \subseteq (Instants(a) \cap Instants(b))
            /\ (ret = None) <=> (Instants(a) \cap Instants(b) = {})
            /\ a.end = b.start => ret = None

C8_Witness ==
    /\ Returned("clip")
    /\ call.a.start < call.b.start /\ call.b.start < call.a.end /\ call.a.end < call.b.end
    /\ ret = Interval(call.b.start, call.a.end)

\* C9: merge_overlaps returns intervals sorted by start, each starting
\* strictly after the previous one ends; they cover exactly the instants the
\* inputs cover, and their durations add up to the number of those instants.
\* (Inputs with start < end throughout give outputs with start < end.)
C9_MergeUnion ==
    Returned("merge_overlaps") =>
        /\ \A i \in 1..(Len(ret) - 1) : ret[i + 1].start > ret[i].end
        /\ \A i \in 1..(Len(ret) - 1) : ret[i].start <= ret[i + 1].start
        /\ (\A i \in 1..Len(call.intervals) : call.intervals[i].start < call.intervals[i].end)
              => \A i \in 1..Len(ret) : ret[i].start < ret[i].end
        /\ UnionInstants(ret) = UnionInstants(call.intervals)
        /\ SumDurations(ret) = Cardinality(UnionInstants(call.intervals))

\* an unsorted input with a touching pair and a separate interval
C9_Witness ==
    /\ Returned("merge_overlaps")
    /\ Len(call.intervals) = 3
    /\ call.intervals[1].start > call.intervals[2].start
    /\ \E i, j \in 1..3 : call.intervals[i].end = call.intervals[j].start
    /\ Len(ret) = 2
    /\ ret[1].end < ret[2].start

PingsOf(store_id) == {p \in store_status : p.store_id = store_id}

\* C1: for start < end the segments of status_segments partition
\* [start, end): the first starts at start, the last ends at end, each has
\* start < end, each ends where the next starts, and the durations add up to
\* end - start; also with pings of equal timestamp or a ping at start.
C1_SegmentsPartition ==
    (Returned("status_segments") /\ call.start < call.end) =>
        /\ Len(ret) >= 1
        /\ ret[1].start = call.start
        /\ ret[Len(ret)].end = call.end
        /\ \A i \in 1..Len(ret) : ret[i].start < ret[i].end
        /\ \A i \in 1..(Len(ret) - 1) : ret[i].end = ret[i + 1].start
        /\ SumDurations(ret) = call.end - call.start

\* a ping exactly at start and two pings of one timestamp inside the range
C1_Witness ==
    /\ Returned("status_segments")
    /\ \E p, q, r \in PingsOf(call.store_id) :
          /\ p.timestamp_utc = call.start
          /\ q.timestamp_utc = r.timestamp_utc /\ q.status # r.status
          /\ call.start < q.timestamp_utc /\ q.timestamp_utc < call.end
    /\ Len(ret) = 2

ZoneOf(tzname) == ZoneInfo(IF tzname = NoTz THEN DEFAULT_TZ ELSE tzname)
ConstantOffset(tzname) == ZoneOf(tzname).before = ZoneOf(tzname).after

\* C3: with an overnight row (st > et) on weekday D and a range that starts,
\* in local time, on the day after D between midnight and et, the windows
\* returned cover the range from its start up to that day's et.
C3_OvernightFromPreviousDay ==
    (Returned("business_windows_utc") /\ call.win_start_utc < call.win_end_utc) =>
        \A i \in 1..Len(call.hours_for_store) :
            LET h == call.hours_for_store[i]
                tz == ZoneOf(call.tzname)
                cur_local == astimezone(call.win_start_utc, tz)
                day == date(cur_local)
            IN  (/\ h.st > h.et
                 /\ weekday(day) = (h.dow + 1) % 7
                 /\ cur_local - combine(day, 0) < h.et)
                => Covered(call.win_start_utc,
                           Min(call.win_end_utc, to_utc(combine(day, h.et), tz)))
                       \subseteq UnionInstants(ret)

\* C4: for the overnight row (23:00, 02:00) in a zone of constant offset the
\* two pieces of one local day leave no instant between them uncovered and
\* last 3 hours in all, from local_window_to_utc and from
\* business_windows_utc over a range containing the whole window.
C4_OvernightThreeHours ==
    /\ (/\ Returned("local_window_to_utc")
         /\ call.st = Hour(23) /\ call.et = Hour(2)
         /\ ConstantOffset(call.tzname))
        => /\ Len(ret) = 2
           /\ ret[1].end = ret[2].start
           /\ SumDurations(ret) = Hour(3)
    /\ (/\ Returned("business_windows_utc")
         /\ Len(call.hours_for_store) = 1
         /\ call.hours_for_store[1].st = Hour(23) /\ call.hours_for_store[1].et = Hour(2)
         /\ ConstantOffset(call.tzname)
         /\ \E day \in -1..(HorizonDays + 3) :
               /\ weekday(day) = call.hours_for_store[1].dow
               /\ call.win_start_utc <= to_utc(combine(day, Hour(23)), ZoneOf(call.tzname))
               /\ to_utc(combine(day + 1, Hour(2)), ZoneOf(call.tzname)) <= call.win_end_utc)
        => SumDurations(ret) = Hour(3)

\* the instants of a range at which the local wall clock lies inside a row
\* of the schedule for the local weekday
Scheduled(tzname, hours_for_store, win_start_utc, win_end_utc) ==
    {u \in Covered(win_start_utc, win_end_utc) :
        LET w == astimezone(u, ZoneOf(tzname))
        IN  \E i \in 1..Len(hours_for_store) :
                /\ hours_for_store[i].dow = weekday(date(w))
                /\ hours_for_store[i].st <= w - combine(date(w), 0)
                /\ w - combine(date(w), 0) < hours_for_store[i].et}

\* the local Monday of the model lies inside the range
SpansMonday(tzname, win_start_utc, win_end_utc) ==
    \E day \in 0..HorizonDays :
        /\ weekday(day) = 0
        /\ win_start_utc <= to_utc(combine(day, 0), ZoneOf(tzname))
        /\ to_utc(combine(day + 1, 0), ZoneOf(tzname)) <= win_end_utc

SameDayWindows ==
    /\ UnionInstants(ret)
         = Scheduled(call.tzname, call.hours_for_store, call.win_start_utc, call.win_end_utc)
    /\ (/\ call.hours_for_store = <<HoursRow(0, Hour(9), Hour(12))>>
         /\ SpansMonday(call.tzname, call.win_start_utc, call.win_end_utc)
         /\ call.win_end_utc - call.win_start_utc <= 7 * DayLen)
        => SumDurations(ret) = Hour(3)

\* C5 as stated: for a non-empty schedule of same-day rows (st <= et)
\* business_windows_utc returns exactly the part of the range inside a row of
\* the local weekday, days without a row adding nothing, and Monday
\* 09:00-12:00 over a range spanning that Monday gives 3 hours; in any zone.
C5_SameDayWindows_AnyZone ==
    Returned("business_windows_utc") => SameDayWindows

\* C5 amended: the same, in a zone whose UTC offset is constant.
C5_SameDayWindows ==
    (Returned("business_windows_utc") /\ ConstantOffset(call.tzname)) => SameDayWindows

\* Monday 09:00-12:00 only, Asia/Kolkata, a range spanning the local Monday
\* and parts of Sunday and Tuesday
C5_Witness ==
    /\ Returned("business_windows_utc")
    /\ call.tzname = "Asia/Kolkata"
    /\ call.hours_for_store = <<HoursRow(0, Hour(9), Hour(12))>>
    /\ SpansMonday(call.tzname, call.win_start_utc, call.win_end_utc)
    /\ Len(ret) = 1 /\ ret[1].end - ret[1].start = Hour(3)
    /\ call.win_start_utc < ret[1].start - DayLen \div 2

\* C6: with an empty schedule and win_start_utc < win_end_utc,
\* business_windows_utc returns the one interval [win_start_utc, win_end_utc),
\* whatever the timezone.
C6_EmptyScheduleAlwaysOpen ==
    (/\ Returned("business_windows_utc")
     /\ call.hours_for_store = <<>>
     /\ call.win_start_utc < call.win_end_utc)
    => ret = <<Interval(call.win_start_utc, call.win_end_utc)>>

C6_Witness ==
    /\ Returned("business_windows_utc")
    /\ call.hours_for_store = <<>>
    /\ call.tzname = "Europe/London"
    /\ call.win_end_utc - call.win_start_utc = DayLen + Hour(6)
    /\ ret = <<Interval(call.win_start_utc, call.win_end_utc)>>

\* C7: every interval business_windows_utc returns lies in the range with
\* start < end, each starts strictly after the previous one ends, and a range
\* with win_start_utc >= win_end_utc gives the empty list.
C7_WindowsClippedMerged ==
    Returned("business_windows_utc") =>
        /\ call.win_start_utc >= call.win_end_utc => ret = <<>>
        /\ \A i \in 1..Len(ret) :
              /\ call.win_start_utc <= ret[i].start
              /\ ret[i].start < ret[i].end
              /\ ret[i].end <= call.win_end_utc
        /\ \A i \in 1..(Len(ret) - 1) : ret[i + 1].start > ret[i].end

\* two overlapping Sunday rows, merged into one window that the range clips
C7_Witness ==
    /\ Returned("business_windows_utc")
    /\ call.hours_for_store = <<HoursRow(6, Hour(10), Hour(14)), HoursRow(6, Hour(9), Hour(12))>>
    /\ call.tzname = "Europe/London"
    /\ ret = <<Interval(call.win_start_utc, to_utc(combine(1, Hour(14)), ZoneOf(call.tzname)))>>
    /\ call.win_start_utc = to_utc(combine(1, Hour(11)), ZoneOf(call.tzname))

\* the instants of the business windows at which a segment has a status
\* that is (active = TRUE) or is not (active = FALSE) "active"
OpenInstants(segs, biz, active) ==
    {t \in UnionInstants(biz) :
        \E i \in 1..Len(segs) : t \in Instants(segs[i]) /\ (segs[i].status = "active") = active}

\* C10: _accumulate returns as active minutes the time the business windows
\* share with the active segments and as inactive minutes the time they
\* share with the other segments; with pings (t0, active) and
\* (t0 + 30 min, inactive), the range [t0, t0 + 1 h) and the range as the one
\* business window that is 30 and 30 minutes.
C10_AccumulateOverlap ==
    Returned("_accumulate") =>
        /\ ret[1] = MinutesPerTick * Cardinality(OpenInstants(call.segs, call.biz, TRUE))
        /\ ret[2] = MinutesPerTick * Cardinality(OpenInstants(call.segs, call.biz, FALSE))
        /\ \A t0 \in 0..MaxTs :
              (/\ store_status = {[store_id |-> "s1", timestamp_utc |-> t0, status |-> "active"],
                                   [store_id |-> "s1", timestamp_utc |-> t0 + TicksPerHour \div 2,
                                    status |-> "inactive"]}
               /\ call.start = t0 /\ call.end = t0 + Hour(1)
               /\ call.biz = <<Interval(call.start, call.end)>>)
              => ret = <<30, 30>>

\* the scenario of the 30 and 30 minutes
C10_Witness ==
    /\ Returned("_accumulate")
    /\ store_status = {[store_id |-> "s1", timestamp_utc |-> 1, status |-> "active"],
                        [store_id |-> "s1", timestamp_utc |-> 1 + TicksPerHour \div 2,
                         status |-> "inactive"]}
    /\ call.start = 1 /\ call.end = 1 + Hour(1)
    /\ call.biz = <<Interval(call.start, call.end)>>
    /\ ret = <<30, 30>>

Final == {"Complete", "Failed"}

\* what get_report answers for job j in the state as it is
Polled(j) == {get_report(report_jobs, files, j, status_only) : status_only \in BOOLEAN}

\* C11: with store_status empty a report run raises from _max_now before a
\* store is listed or a file written; the job never becomes Complete and
\* ends Failed, and get_report answers Running or Failed for it, never
\* Complete and never a file.
C11_EmptyTableFails ==
    store_status = {} =>
        /\ files = {}
        /\ \A j \in DOMAIN tasks :
              /\ tasks[j].pc \in {"queued", "except", "done"}
              /\ tasks[j].stores = <<>> /\ tasks[j].rows = <<>>
              /\ report_jobs[j].status # "Complete"
              /\ tasks[j].pc = "done" => report_jobs[j].status = "Failed"
              /\ \A a \in Polled(j) : a.text \in {"Running", "Failed"} /\ a.file = None
        /\ (response # None /\ response.report_id \in DOMAIN tasks) =>
              /\ response.answer.text \in {"Running", "Failed"}
              /\ response.answer.file = None

C11_Witness ==
    /\ store_status = {}
    /\ \E j \in DOMAIN tasks :
          /\ tasks[j].pc = "done"
          /\ report_jobs[j].status = "Failed"
          /\ response = [report_id |-> j, answer |-> Answer(200, "Failed", None)]

\* the stores a table of the database knows
KnownStores ==
    {p.store_id : p \in store_status} \cup {r.store_id : r \in store_timezone}
        \cup {h.store_id : h \in business_hours}

RowIds(j) == [i \in 1..Len(tasks[j].rows) |-> tasks[j].rows[i].store_id]

\* C12: a finished report has exactly one row for every store that has a
\* ping, a timezone record or a business-hours record, in ascending order
\* of store id and without repeats.
C12_RowPerKnownStore ==
    \A j \in DOMAIN tasks :
        report_jobs[j].status = "Complete" =>
            /\ RowIds(j) = sorted(KnownStores)
            /\ \E f \in files : f.path = CsvPath(j) /\ f.rows = tasks[j].rows

\* C13: two reports over the same tables and the same now have the same
\* rows, whatever the tables hold, two pings of one store with one timestamp
\* and different statuses included.
C13_SameRowsTwice ==
    \A j1, j2 \in DOMAIN tasks :
        (/\ report_jobs[j1].status = "Complete"
         /\ report_jobs[j2].status = "Complete"
         /\ tasks[j1].now = tasks[j2].now)
            => tasks[j1].rows = tasks[j2].rows

\* C14: a job is Complete only once its task has computed a row for every
\* store it listed and has written them to its CSV file; for a job that is
\* Running or Failed get_report answers with no file.
C14_CompleteAfterCsv ==
    /\ \A j \in DOMAIN tasks :
          /\ report_jobs[j].status = "Complete" =>
                /\ tasks[j].pc = "done"
                /\ RowIds(j) = tasks[j].stores
                /\ [path |-> CsvPath(j), rows |-> tasks[j].rows] \in files
          /\ report_jobs[j].status \in {"Running", "Failed"} =>
                \A a \in Polled(j) : a.file = None /\ a.text = report_jobs[j].status
    /\ (response # None /\ response.answer.file # None) =>
          /\ report_jobs[response.report_id].status = "Complete"
          /\ response.answer.file = CsvPath(response.report_id)

C14_Witness ==
    \E j, k \in DOMAIN tasks :
        /\ report_jobs[j].status = "Complete"
        /\ response = [report_id |-> j, answer |-> Answer(200, "", CsvPath(j))]
        /\ tasks[k].pc = "commit"
        /\ Exists(files, CsvPath(k))
        /\ report_jobs[k].status = "Running"

\* C18: a Complete job has its csv_path set and the file written, with at
\* least one row, so get_report never answers 500 for it.
C18_CompleteHasCsv ==
    /\ \A j \in DOMAIN tasks :
          report_jobs[j].status = "Complete" =>
              /\ report_jobs[j].csv_path = CsvPath(j)
              /\ Exists(files, report_jobs[j].csv_path)
              /\ tasks[j].rows # <<>>
              /\ \A a \in Polled(j) : a.status_code = 200
    /\ response # None => response.answer.status_code # 500

C18_Witness ==
    \E j \in DOMAIN tasks :
        /\ report_jobs[j].status = "Complete"
        /\ \E p \in store_status, i \in 1..Len(tasks[j].rows) :
              p.timestamp_utc = tasks[j].now.utc /\ p.store_id = tasks[j].rows[i].store_id
        /\ response = [report_id |-> j, answer |-> Answer(200, "", report_jobs[j].csv_path)]

\* C15: a job handed out by trigger_report is stored, Running, before its
\* task has taken a step, so get_report never answers 404 for it; its
\* status is always Running, Failed or Complete; once Complete or Failed it
\* never changes; and every job eventually is Complete or Failed, whether
\* its computation returns or raises.
C15_JobLifecycle ==
    /\ [](/\ DOMAIN tasks = DOMAIN report_jobs
          /\ \A j \in DOMAIN tasks :
                /\ report_jobs[j].status \in {"Running", "Failed", "Complete"}
                /\ tasks[j].pc # "done" => report_jobs[j].status = "Running"
                /\ tasks[j].pc = "done" => report_jobs[j].status \in Final
                /\ \A a \in Polled(j) : a.status_code # 404
          /\ (response # None /\ response.report_id \in DOMAIN tasks) =>
                response.answer.status_code # 404)
    /\ [][\A j \in DOMAIN report_jobs :
             report_jobs[j].status \in Final => report_jobs'[j] = report_jobs[j]]_vars
    /\ \A j \in 1..MaxJobs :
          (j \in DOMAIN tasks) ~> (j \in DOMAIN tasks /\ report_jobs[j].status \in Final)

C15_Witness ==
    \E j, k \in DOMAIN tasks :
        /\ report_jobs[j].status = "Failed"
        /\ tasks[j].rows # <<>>
        /\ tasks[k].pc = "queued"
        /\ response = [report_id |-> k, answer |-> Answer(200, "Running", None)]

OfStore(tbl, sid) == {r \in tbl : r.store_id = sid}

\* C16: the row a run gives a store is the row every data set gives it that
\* has the same pings, business hours and timezone for that store and the
\* same greatest ping timestamp, whatever it holds for the other stores; the
\* three ranges of every store end at the run's one now.
C16_RowOfOwnData ==
    \A j \in DOMAIN tasks : \A i \in 1..Len(tasks[j].rows) :
        LET sid == tasks[j].stores[i]
            now == tasks[j].now
        IN  /\ \A k \in 1..3 : Ranges(now)[k].end = _max_now(store_status).utc
            /\ \A ss \in RunStatusTables, bh \in RunHoursTables, tz \in RunTimezoneTables :
                  (/\ OfStore(ss, sid) = OfStore(store_status, sid)
                   /\ OfStore(bh, sid) = OfStore(business_hours, sid)
                   /\ OfStore(tz, sid) = OfStore(store_timezone, sid)
                   /\ _max_now(ss) = now)
                      => \A acc \in StoreAccs(sid, now, ss, bh, tz) :
                            ReportRow(sid, acc) = tasks[j].rows[i]

\* the business windows of the store of row i of task j in range k
RowWindows(j, i, hrows, k) ==
    business_windows_utc(_tz_for(store_timezone, tasks[j].stores[i]), _hours_map(hrows),
                         Ranges(tasks[j].now)[k].start, Ranges(tasks[j].now)[k].end)

\* C17: in every row and each of the three ranges, active plus inactive
\* minutes, before rounding, are the total duration of the store's business
\* windows inside the range, so at most the length of the range (60 min,
\* 24 h, 168 h); for a store without business hours they are the whole range.
C17_SumIsBusinessTime ==
    \A j \in DOMAIN tasks : \A i \in 1..Len(tasks[j].acc) : \A k \in 1..3 :
        LET sum == tasks[j].acc[i][k][1] + tasks[j].acc[i][k][2]
            sid == tasks[j].stores[i]
        IN  /\ \A hrows \in SelectHours(business_hours, sid) :
                  sum = SumDurations(RowWindows(j, i, hrows, k)) * MinutesPerTick
            /\ sum <= <<60, 24 * 60, 168 * 60>>[k]
            /\ OfStore(business_hours, sid) = {} => sum = <<60, 24 * 60, 168 * 60>>[k]

C17_Witness ==
    \E j \in DOMAIN tasks : \E i \in 1..Len(tasks[j].acc) :
        /\ OfStore(business_hours, tasks[j].stores[i]) # {}
        /\ \A k \in 2..3 : tasks[j].acc[i][k][1] > 0 /\ tasks[j].acc[i][k][2] > 0
        /\ tasks[j].acc[i][1][1] + tasks[j].acc[i][1][2] \in 1..59
        /\ tasks[j].acc[i][3][1] + tasks[j].acc[i][3][2] < 168 * 60
        /\ report_jobs[j].status = "Complete"

====
